---- MODULE Spec2Model ----
(***************************************************************************)
(* Model of insert_ap_images.py: the run of main() over an unpacked        *)
(* project (accessPoints.json, floorPlans.json, notes.json, images.json)   *)
(* and an AP-Images directory, under Rule A (one new note per image).      *)
(* File names are sequences of one-character strings, so that splitext     *)
(* and the regular expression of parse_ap_name_from_filename are computed  *)
(* as the code computes them.                                              *)
(***************************************************************************)
EXTENDS Integers, Sequences, FiniteSets, TLC

VARIABLES
    input,          \* what the run is started on: arguments, archive, image directory
    pc,             \* position of main()
    failure,        \* the exception that ended the run ("" when none)
    tempDir,        \* extract_dir: "none", "exists" or "removed"
    disk,           \* the documents of extract_dir
    saved,          \* documents rewritten by save_json in this run
    assets,         \* ids i such that extract_dir holds a file image-<i>
    output,         \* output_esx: "unwritten", "partial" or "complete"
    accessPoints,   \* in-memory accessPoints.json
    notes,          \* in-memory notes.json
    images_data,    \* in-memory images.json
    floor_name_to_id,
    ap_index,       \* (floorPlanId, name) -> position in accessPoints.accessPoints
    note_index,     \* note id -> position in notes.notes
    ap_images,      \* sequence of groups [key, files], in dict insertion order
    gi,             \* position of the outer loop over ap_images
    fi,             \* position of the inner loop over image_files
    inserted_count,
    skipped_count,
    summary,        \* TRUE once the final "Done. Inserted .., skipped .." is printed
    nextId,         \* source of uuid4 values
    clock,          \* time.time(), in milliseconds
    pIn,            \* parser harness: the name, burst index and extension under test
    pOut            \* parser harness: the parsed names

vars == <<input, pc, failure, tempDir, disk, saved, assets, output, accessPoints,
          notes, images_data, floor_name_to_id, ap_index, note_index, ap_images,
          gi, fi, inserted_count, skipped_count, summary, nextId, clock, pIn, pOut>>

runVars == <<input, pc, failure, tempDir, disk, saved, assets, output, accessPoints,
             notes, images_data, floor_name_to_id, ap_index, note_index, ap_images,
             gi, fi, inserted_count, skipped_count, summary, nextId, clock>>

----------------------------------------------------------------------------
(* Bounds *)

MaxNameLen == 3     \* longest AP name given to the parser harness
MaxDigits == 2      \* longest burst index given to the parser harness
MaxBurst == 2       \* largest burst index of an image of AP "A" on floor F1

----------------------------------------------------------------------------
(* Strings as sequences of characters *)

Digits == {"0", "1", "2", "3", "4", "5", "6", "7", "8", "9"}

Ord(c) ==
    CASE c = "\n" -> 10
      [] c = "-" -> 45
      [] c = "." -> 46
      [] c = "0" -> 48 [] c = "1" -> 49 [] c = "2" -> 50 [] c = "3" -> 51
      [] c = "4" -> 52 [] c = "5" -> 53 [] c = "6" -> 54 [] c = "7" -> 55
      [] c = "8" -> 56 [] c = "9" -> 57
      [] c = "A" -> 65 [] c = "B" -> 66 [] c = "G" -> 71 [] c = "J" -> 74
      [] c = "N" -> 78 [] c = "P" -> 80
      [] c = "e" -> 101 [] c = "g" -> 103 [] c = "j" -> 106 [] c = "n" -> 110
      [] c = "p" -> 112 [] c = "t" -> 116 [] c = "x" -> 120
      [] OTHER -> 0

LowerChar(c) ==
    CASE c = "A" -> "a" [] c = "B" -> "b" [] c = "G" -> "g" [] c = "J" -> "j"
      [] c = "N" -> "n" [] c = "P" -> "p"
      [] OTHER -> c

UpperChar(c) ==
    CASE c = "e" -> "E" [] c = "g" -> "G" [] c = "j" -> "J" [] c = "n" -> "N"
      [] c = "p" -> "P" [] c = "t" -> "T" [] c = "x" -> "X"
      [] OTHER -> c

Upper(s) == [i \in 1..Len(s) |-> UpperChar(s[i])]

Lower(s) == [i \in 1..Len(s) |-> LowerChar(s[i])]

\* s < t in Python's string order
RECURSIVE StrLess(_, _)
StrLess(s, t) ==
    IF t = <<>> THEN FALSE
    ELSE IF s = <<>> THEN TRUE
    ELSE IF Ord(Head(s)) # Ord(Head(t)) THEN Ord(Head(s)) < Ord(Head(t))
    ELSE StrLess(Tail(s), Tail(t))

\* sorted(S) for a set S of strings
RECURSIVE Sorted(_)
Sorted(S) ==
    IF S = {} THEN <<>>
    ELSE LET m == CHOOSE a \in S : \A b \in S \ {a} : StrLess(a, b)
         IN  <<m>> \o Sorted(S \ {m})

\* the largest i with s[i] = c, 0 when there is none (str.rfind, 1-based)
RFind(s, c) ==
    IF \E i \in 1..Len(s) : s[i] = c
    THEN CHOOSE i \in 1..Len(s) : s[i] = c /\ \A j \in (i+1)..Len(s) : s[j] # c
    ELSE 0

\* os.path.splitext on a name without directory separators: the extension
\* starts at the last dot, unless only dots precede it
SplitExt(p) ==
    LET dotIndex == RFind(p, ".")
    IN  IF dotIndex > 0 /\ \E j \in 1..(dotIndex - 1) : p[j] # "."
        THEN <<SubSeq(p, 1, dotIndex - 1), SubSeq(p, dotIndex, Len(p))>>
        ELSE <<p, <<>> >>

\* "$" without re.MULTILINE: the end of the string, or just before a final newline
AtDollar(s, i) == i = Len(s) + 1 \/ (i = Len(s) /\ s[i] = "\n")

\* (?:-\d+)?$ matches s from position i on
SuffixMatches(s, i) ==
    \/ AtDollar(s, i)
    \/ /\ i <= Len(s) /\ s[i] = "-"
       /\ \E e \in (i+1)..Len(s) :
             /\ \A j \in (i+1)..e : s[j] \in Digits
             /\ AtDollar(s, e + 1)

\* the lengths k of group 1 for which ^(.*?)(?:-\d+)?$ matches; "." excludes newline
MatchLens(s) ==
    {k \in 0..Len(s) : /\ \A j \in 1..k : s[j] # "\n"
                       /\ SuffixMatches(s, k + 1)}

\* a slip the code could have made: a greedy first group, which never yields the suffix
parse_greedy(filename) ==
    LET base == SplitExt(filename)[1]
        ks == MatchLens(base)
    IN  IF ks # {}
        THEN SubSeq(base, 1, CHOOSE k \in ks : \A k2 \in ks : k2 <= k)
        ELSE base

parse_ap_name_from_filename(filename) ==
    LET base == SplitExt(filename)[1]
        ks == MatchLens(base)
    IN  IF ks # {}
        THEN SubSeq(base, 1, CHOOSE k \in ks : \A k2 \in ks : k <= k2)
        ELSE base

----------------------------------------------------------------------------
(* The documents a run can be started on *)

NameA == <<"A">>
NameB == <<"B">>

Iso(ms) == [seconds |-> ms \div 1000, millis |-> ms % 1000]

NoteFull ==
    [id |-> 1, text |-> "hello", title |-> "T", status |-> "ACTIVE",
     imageIds |-> <<5>>, created |-> 100, modified |-> 200,
     createdBy |-> "alice", modifiedBy |-> "bob",
     history |-> [createdAt |-> Iso(100), modifiedAt |-> Iso(200),
                  createdBy |-> "alice", modifiedBy |-> "bob", revision |-> 3],
     color |-> "red"]

NoteBare == [id |-> 2, status |-> "DONE", imageIds |-> <<>>, zoom |-> 4]

NotesDocs ==
    { [notes |-> <<>>],
      [notes |-> <<NoteFull>>],
      [notes |-> <<NoteBare, NoteFull>>],
      [version |-> 1] }

EntryFull ==
    [id |-> 5, imageFormat |-> <<"J", "P", "G">>, status |-> "ACTIVE",
     resolutionWidth |-> 640, resolutionHeight |-> 480]

\* images.json as found in extract_dir: absent, a bare list, or an object
ImagesFiles ==
    { [kind |-> "absent", items |-> <<>>, data |-> [images |-> <<>>]],
      [kind |-> "list", items |-> <<EntryFull>>, data |-> [images |-> <<>>]],
      [kind |-> "object", items |-> <<>>, data |-> [images |-> <<EntryFull>>]],
      [kind |-> "object", items |-> <<>>, data |-> [images |-> <<>>]],
      [kind |-> "object", items |-> <<>>, data |-> [version |-> 1]] }

FloorPlansDoc ==
    [floorPlans |-> << [id |-> "f1", name |-> "F1"],
                       [id |-> "f2", name |-> "F2"],
                       [id |-> "f3"] >>]

AP(id, name, floor) == [id |-> id, name |-> name, location |-> [floorPlanId |-> floor]]

WithNotes(ap, ids) == [f \in DOMAIN ap \cup {"noteIds"} |->
                          IF f = "noteIds" THEN ids ELSE ap[f]]

AccessPointsDocs ==
    { [accessPoints |-> << AP("ap1", NameA, "f1") >>],
      [accessPoints |-> << WithNotes(AP("ap1", NameA, "f1"), <<1, 2>>),
                           AP("ap2", NameA, "f2") >>],
      [accessPoints |-> << WithNotes(AP("ap1", NameA, "f1"), <<99, 1>>) >>],
      [accessPoints |-> << WithNotes(AP("ap1", NameA, "f1"), <<1, 99>>),
                           WithNotes(AP("ap3", NameA, "f1"), <<>>),
                           [id |-> "ap4", location |-> [floorPlanId |-> "f1"]],
                           [id |-> "ap5", name |-> NameB] >>] }

DocNames == {"accessPoints.json", "floorPlans.json", "notes.json"}

\* AP-Images/<floor>/<file>: the images of the burst of AP "A" on F1
Digit(k) == CASE k = 0 -> "0" [] k = 1 -> "1" [] k = 2 -> "2" [] k = 3 -> "3"
              [] k = 4 -> "4" [] k = 5 -> "5" [] k = 6 -> "6" [] k = 7 -> "7"
              [] k = 8 -> "8" [] OTHER -> "9"

BurstFile(k) ==
    IF k = 0 THEN NameA \o <<".", "p", "n", "g">>
    ELSE IF k % 2 = 1 THEN NameA \o <<"-", Digit(k)>> \o <<".", "J", "P", "G">>
    ELSE NameA \o <<"-", Digit(k)>> \o <<".", "j", "p", "e", "g">>

FileB == NameB \o <<".", "p", "n", "g">>
FileTxt == NameA \o <<".", "t", "x", "t">>
FileA == NameA \o <<".", "P", "N", "G">>

\* the image directory holding the first c images of the burst, and the optional others
ImageDir(c, b, a2, x) ==
    [ F1 |-> {BurstFile(k) : k \in 0..(c - 1)} \cup (IF b THEN {FileB, FileTxt} ELSE {}),
      F2 |-> IF a2 THEN {FileA} ELSE {},
      FX |-> IF x THEN {FileA, FileB} ELSE {} ]

ImageDirs ==
    { ImageDir(c, b, a2, x) : c \in 0..(MaxBurst + 1),
                              b \in BOOLEAN, a2 \in BOOLEAN, x \in BOOLEAN }

FloorDirs(dir) == {d \in DOMAIN dir : dir[d] # {}}

\* time.time() at the first note of a run, in milliseconds
StartTime == 1999

FirstUuid == 1000

----------------------------------------------------------------------------
(* Helpers of the script *)

\* r[f] = v on a dict r
Put(r, f, v) == [g \in DOMAIN r \cup {f} |-> IF g = f THEN v ELSE r[g]]

\* d.get(f) is truthy, for a field holding a list or a dict
Truthy(d, f) == f \in DOMAIN d /\ d[f] # <<>>

build_floor_name_to_id(floorPlans) ==
    LET fs == floorPlans.floorPlans
        named == {i \in 1..Len(fs) : "name" \in DOMAIN fs[i] /\ fs[i].name # ""}
    IN  [n \in {fs[i].name : i \in named} |->
            LET last == CHOOSE i \in named :
                            fs[i].name = n /\ \A j \in named : fs[j].name = n => j <= i
            IN  IF "id" \in DOMAIN fs[last] THEN fs[last].id ELSE ""]

\* the key under which build_ap_index files an AP, <<>> when it files none
APKey(ap) ==
    IF /\ "name" \in DOMAIN ap /\ ap.name # <<>>
       /\ "location" \in DOMAIN ap /\ "floorPlanId" \in DOMAIN ap.location
       /\ ap.location.floorPlanId # ""
    THEN <<ap.location.floorPlanId, ap.name>>
    ELSE <<>>

build_ap_index(aps) ==
    LET list == aps.accessPoints
        keyed == {i \in 1..Len(list) : APKey(list[i]) # <<>>}
    IN  [k \in {APKey(list[i]) : i \in keyed} |->
            CHOOSE i \in keyed : APKey(list[i]) = k
                                 /\ \A j \in keyed : APKey(list[j]) = k => j <= i]

NoteList(notes_data) == IF "notes" \in DOMAIN notes_data THEN notes_data.notes ELSE <<>>

build_note_index(notes_data) ==
    LET list == NoteList(notes_data)
        withId == {i \in 1..Len(list) : "id" \in DOMAIN list[i] /\ list[i].id # 0}
    IN  [nid \in {list[i].id : i \in withId} |->
            CHOOSE i \in withId : list[i].id = nid
                                  /\ \A j \in withId : list[j].id = nid => j <= i]

AcceptedExts == { <<".", "p", "n", "g">>, <<".", "j", "p", "g">>, <<".", "j", "p", "e", "g">> }

Accepted(fname) == Lower(SplitExt(fname)[2]) \in AcceptedExts

\* mapping.setdefault(key, []).append(full), on the groups in insertion order
AddToGroup(mapping, key, full) ==
    IF \E i \in 1..Len(mapping) : mapping[i].key = key
    THEN [i \in 1..Len(mapping) |->
            IF mapping[i].key = key
            THEN [mapping[i] EXCEPT !.files = Append(@, full)]
            ELSE mapping[i]]
    ELSE Append(mapping, [key |-> key, files |-> <<full>>])

\* the inner loop of collect_images over the sorted names of one floor directory
RECURSIVE AddFiles(_, _, _, _)
AddFiles(mapping, floor_name, floor_id, fnames) ==
    IF fnames = <<>> THEN mapping
    ELSE LET fname == Head(fnames)
             next == IF Accepted(fname)
                     THEN AddToGroup(mapping,
                                     <<floor_id, parse_ap_name_from_filename(fname)>>,
                                     [dir |-> floor_name, name |-> fname])
                     ELSE mapping
         IN  AddFiles(next, floor_name, floor_id, Tail(fnames))

\* the outer loop of collect_images, over os.listdir(images_root) in the order it gave
RECURSIVE CollectFloors(_, _, _, _)
CollectFloors(mapping, dir, order, f2id) ==
    IF order = <<>> THEN mapping
    ELSE LET floor_name == Head(order)
             floor_id == IF floor_name \in DOMAIN f2id THEN f2id[floor_name] ELSE ""
             next == IF floor_id = "" THEN mapping
                     ELSE AddFiles(mapping, floor_name, floor_id, Sorted(dir[floor_name]))
         IN  CollectFloors(next, dir, Tail(order), f2id)

collect_images(dir, order, f2id) == CollectFloors(<<>>, dir, order, f2id)

\* the orders in which os.listdir can give the members of S
Orders(S) ==
    {o \in [1..Cardinality(S) -> S] : \A i, j \in 1..Cardinality(S) : o[i] = o[j] => i = j}

init_images_data(d) ==
    IF "images.json" \in d.present
    THEN IF d.images.kind = "list" THEN [images |-> d.images.items]
         ELSE IF "images" \in DOMAIN d.images.data THEN d.images.data
         ELSE Put(d.images.data, "images", <<>>)
    ELSE [images |-> <<>>]

ImageFormat(img_path) ==
    LET dotted == Lower(SplitExt(img_path)[2])
        ext == IF dotted # <<>> /\ Head(dotted) = "." THEN Tail(dotted) ELSE dotted
    IN  IF ext # <<>> THEN Upper(ext) ELSE <<"P", "N", "G">>

\* a slip the code could have made: the entry replaces the template, not appended
add_image_metadata_in_place(data, img_id, img_path) ==
    LET images_list == IF "images" \in DOMAIN data THEN data.images ELSE <<>>
        template == IF images_list # <<>> THEN images_list[1] ELSE <<>>
        entry == Put(Put(Put(template, "id", img_id),
                         "imageFormat", ImageFormat(img_path)), "status", "CREATED")
    IN  Put(data, "images",
            IF images_list # <<>> THEN [images_list EXCEPT ![1] = entry] ELSE <<entry>>)

add_image_metadata(data, img_id, img_path) ==
    LET images_list == IF "images" \in DOMAIN data THEN data.images ELSE <<>>
        template == IF images_list # <<>> THEN images_list[1] ELSE <<>>
        entry == Put(Put(Put(template, "id", img_id),
                         "imageFormat", ImageFormat(img_path)), "status", "CREATED")
    IN  Put(data, "images", Append(images_list, entry))

AuthorName == "Brett Melnychuk"

\* a slip the code could have made: a fresh history block instead of the template's
set_note_audit_fields_fresh_history(note, now) ==
    LET history == [createdAt |-> Iso(now), modifiedAt |-> Iso(now),
                    createdBy |-> AuthorName, modifiedBy |-> AuthorName]
        top == Put(Put(Put(Put(note, "created", now), "modified", now),
                       "createdBy", AuthorName), "modifiedBy", AuthorName)
    IN  Put(top, "history", history)

set_note_audit_fields(note, now) ==
    LET old == IF Truthy(note, "history") THEN note.history ELSE <<>>
        history == Put(Put(Put(Put(old, "createdAt", Iso(now)), "modifiedAt", Iso(now)),
                           "createdBy", AuthorName), "modifiedBy", AuthorName)
        top == Put(Put(Put(Put(note, "created", now), "modified", now),
                       "createdBy", AuthorName), "modifiedBy", AuthorName)
    IN  Put(top, "history", history)

\* lines 216-233: the new note, before its audit fields
NewNote(notes_data, new_id) ==
    IF Truthy(notes_data, "notes")
    THEN LET template == notes_data.notes[1]
             n1 == Put(template, "id", new_id)
             n2 == IF "text" \in DOMAIN n1 THEN Put(n1, "text", "") ELSE n1
             n3 == IF "title" \in DOMAIN n2 THEN Put(n2, "title", "") ELSE n2
         IN  Put(n3, "imageIds", <<>>)
    ELSE [id |-> new_id, text |-> "", imageIds |-> <<>>, status |-> "CREATED"]

\* a slip the code could have made: noteIds is replaced by the new id, not appended to
create_new_note_for_ap_reset(pos, aps, notes_data, nindex, new_id, now) ==
    LET note == set_note_audit_fields(NewNote(notes_data, new_id), now)
        list == Append(NoteList(notes_data), note)
        ap == aps.accessPoints[pos]
    IN  [notes |-> Put(notes_data, "notes", list),
         note_index |-> Put(nindex, new_id, Len(list)),
         accessPoints |-> [aps EXCEPT !.accessPoints[pos] = Put(ap, "noteIds", <<new_id>>)]]

\* a slip the code could have made: the template is not copied, so it is overwritten
create_new_note_for_ap_aliased(pos, aps, notes_data, nindex, new_id, now) ==
    LET note == set_note_audit_fields(NewNote(notes_data, new_id), now)
        old == NoteList(notes_data)
        list == Append(IF old # <<>> THEN [old EXCEPT ![1] = note] ELSE old, note)
        ap == aps.accessPoints[pos]
        note_ids == IF "noteIds" \in DOMAIN ap THEN ap.noteIds ELSE <<>>
    IN  [notes |-> Put(notes_data, "notes", list),
         note_index |-> Put(nindex, new_id, Len(list)),
         accessPoints |-> [aps EXCEPT !.accessPoints[pos] =
                                         Put(ap, "noteIds", Append(note_ids, new_id))]]

\* a slip the code could have made: the new note is not entered in the note index
create_new_note_for_ap_unindexed(pos, aps, notes_data, nindex, new_id, now) ==
    LET note == set_note_audit_fields(NewNote(notes_data, new_id), now)
        list == Append(NoteList(notes_data), note)
        ap == aps.accessPoints[pos]
        note_ids == IF "noteIds" \in DOMAIN ap THEN ap.noteIds ELSE <<>>
    IN  [notes |-> Put(notes_data, "notes", list),
         note_index |-> nindex,
         accessPoints |-> [aps EXCEPT !.accessPoints[pos] =
                                         Put(ap, "noteIds", Append(note_ids, new_id))]]

\* the documents and the index after create_new_note_for_ap on the AP at position pos
create_new_note_for_ap(pos, aps, notes_data, nindex, new_id, now) ==
    LET note == set_note_audit_fields(NewNote(notes_data, new_id), now)
        list == Append(NoteList(notes_data), note)
        ap == aps.accessPoints[pos]
        note_ids == IF "noteIds" \in DOMAIN ap THEN ap.noteIds ELSE <<>>
    IN  [notes |-> Put(notes_data, "notes", list),
         note_index |-> Put(nindex, new_id, Len(list)),
         accessPoints |-> [aps EXCEPT !.accessPoints[pos] =
                                         Put(ap, "noteIds", Append(note_ids, new_id))]]

----------------------------------------------------------------------------
(* The state before main() runs *)

EmptyDisk ==
    [present |-> {}, damaged |-> {},
     accessPoints |-> [accessPoints |-> <<>>],
     notes |-> [notes |-> <<>>],
     images |-> [kind |-> "absent", items |-> <<>>, data |-> [images |-> <<>>]]]

\* the documents of the archive (or of the leftover directory) of input in
ContentOf(in) ==
    [present |-> in.present \cup (IF in.imagesFile.kind = "absent" THEN {} ELSE {"images.json"}),
     damaged |-> {},
     accessPoints |-> in.apDoc,
     notes |-> in.notesDoc,
     images |-> in.imagesFile]

CatalogOf(file) == IF file.kind = "list" THEN file.items
                   ELSE IF "images" \in DOMAIN file.data THEN file.data.images ELSE <<>>

\* the asset files of the archive: one per catalog entry
AssetsOf(in) == {CatalogOf(in.imagesFile)[i].id : i \in 1..Len(CatalogOf(in.imagesFile))}

Unwritten == [status |-> "unwritten", docs |-> EmptyDisk, assets |-> {}]

DefaultApDoc == [accessPoints |-> << AP("ap1", NameA, "f1") >>]

\* inputs on which the startup checks decide: every combination of what exists
StartupInputs ==
    [srcExists : BOOLEAN, leftover : BOOLEAN, present : SUBSET DocNames,
     rootExists : BOOLEAN, keep_temp : BOOLEAN, time : {StartTime},
     apDoc : {DefaultApDoc}, notesDoc : {[notes |-> <<>>]},
     imagesFile : {f \in ImagesFiles : f.kind = "absent"},
     dir : {ImageDir(1, FALSE, FALSE, FALSE)}]

\* inputs that pass the startup checks: every combination of documents and images
MergeInputs ==
    [srcExists : {TRUE}, leftover : {FALSE}, present : {DocNames},
     rootExists : {TRUE}, keep_temp : BOOLEAN, time : {StartTime},
     apDoc : AccessPointsDocs, notesDoc : NotesDocs, imagesFile : ImagesFiles,
     dir : ImageDirs]

Inputs == StartupInputs \cup MergeInputs

NotStarted ==
    /\ pc = "start"
    /\ failure = ""
    /\ saved = {}
    /\ output = Unwritten
    /\ accessPoints = [accessPoints |-> <<>>]
    /\ notes = [notes |-> <<>>]
    /\ images_data = [images |-> <<>>]
    /\ floor_name_to_id = <<>>
    /\ ap_index = <<>>
    /\ note_index = <<>>
    /\ ap_images = <<>>
    /\ gi = 1
    /\ fi = 1
    /\ inserted_count = 0
    /\ skipped_count = 0
    /\ summary = FALSE
    /\ nextId = FirstUuid
    /\ clock = input.time

\* the names, burst indexes and extensions given to the parser harness
ParseAlphabet == {"A", "1", "-", ".", "\n"}

ParseNames == UNION {[1..n -> ParseAlphabet] : n \in 0..MaxNameLen}

ParseDigits == UNION {[1..n -> {"0", "7"}] : n \in 1..MaxDigits}

ParseExts == { <<".", "p", "n", "g">>, <<".", "J", "P", "G">> }

ParserIdle ==
    /\ pIn = [name |-> <<>>, digits |-> <<>>, ext |-> <<>>]
    /\ pOut = [plainDone |-> FALSE, plain |-> <<>>, burstDone |-> FALSE, burst |-> <<>>]

Init ==
    /\ input \in Inputs
    /\ tempDir = IF input.leftover THEN "exists" ELSE "none"
    /\ disk = IF input.leftover THEN ContentOf(input) ELSE EmptyDisk
    /\ assets = IF input.leftover THEN AssetsOf(input) ELSE {}
    /\ NotStarted
    /\ ParserIdle

----------------------------------------------------------------------------
(* main() *)

Abort(why) == pc' = "abort" /\ failure' = why

\* lines 294-301: the source archive must exist; extract it unless extract_dir exists
ExtractProject ==
    /\ pc = "start"
    /\ IF ~input.srcExists
       THEN /\ Abort("ESX file not found")
            /\ UNCHANGED <<tempDir, disk, assets>>
       ELSE /\ pc' = "load"
            /\ failure' = failure
            /\ IF tempDir = "exists"
               THEN UNCHANGED <<tempDir, disk, assets>>
               ELSE /\ tempDir' = "exists"
                    /\ disk' = ContentOf(input)
                    /\ assets' = AssetsOf(input)
    /\ UNCHANGED <<input, saved, output, accessPoints, notes, images_data,
                   floor_name_to_id, ap_index, note_index, ap_images, gi, fi,
                   inserted_count, skipped_count, summary, nextId, clock, pIn, pOut>>

\* a slip the code could have made: images.json is written back as soon as normalised
LoadDocuments_normalising ==
    /\ pc = "load"
    /\ IF DocNames \subseteq disk.present
       THEN /\ pc' = "scan"
            /\ failure' = failure
            /\ accessPoints' = disk.accessPoints
            /\ notes' = disk.notes
            /\ images_data' = init_images_data(disk)
            /\ floor_name_to_id' = build_floor_name_to_id(FloorPlansDoc)
            /\ ap_index' = build_ap_index(disk.accessPoints)
            /\ note_index' = build_note_index(disk.notes)
            /\ saved' = saved \cup {"images.json"}
            /\ disk' = [disk EXCEPT !.present = @ \cup {"images.json"},
                                    !.images = [kind |-> "object", items |-> <<>>,
                                                data |-> init_images_data(disk)]]
       ELSE /\ Abort(IF "accessPoints.json" \notin disk.present
                     THEN "accessPoints.json not found"
                     ELSE IF "floorPlans.json" \notin disk.present
                     THEN "floorPlans.json not found" ELSE "notes.json not found")
            /\ UNCHANGED <<accessPoints, notes, images_data, floor_name_to_id,
                           ap_index, note_index, saved, disk>>
    /\ UNCHANGED <<input, tempDir, assets, output, ap_images, gi, fi,
                   inserted_count, skipped_count, summary, nextId, clock, pIn, pOut>>

\* lines 309-323: the three required documents, then the loads and the indexes
LoadDocuments ==
    /\ pc = "load"
    /\ IF "accessPoints.json" \notin disk.present
       THEN /\ Abort("accessPoints.json not found")
            /\ UNCHANGED <<accessPoints, notes, images_data, floor_name_to_id,
                           ap_index, note_index>>
       ELSE IF "floorPlans.json" \notin disk.present
       THEN /\ Abort("floorPlans.json not found")
            /\ UNCHANGED <<accessPoints, notes, images_data, floor_name_to_id,
                           ap_index, note_index>>
       ELSE IF "notes.json" \notin disk.present
       THEN /\ Abort("notes.json not found")
            /\ UNCHANGED <<accessPoints, notes, images_data, floor_name_to_id,
                           ap_index, note_index>>
       ELSE /\ pc' = "scan"
            /\ failure' = failure
            /\ accessPoints' = disk.accessPoints
            /\ notes' = disk.notes
            /\ images_data' = init_images_data(disk)
            /\ floor_name_to_id' = build_floor_name_to_id(FloorPlansDoc)
            /\ ap_index' = build_ap_index(disk.accessPoints)
            /\ note_index' = build_note_index(disk.notes)
    /\ UNCHANGED <<input, tempDir, disk, saved, assets, output, ap_images, gi, fi,
                   inserted_count, skipped_count, summary, nextId, clock, pIn, pOut>>

\* a slip the code could have made: no early return when no image is found
ScanImages_no_early_return ==
    /\ pc = "scan"
    /\ IF ~input.rootExists
       THEN /\ Abort("Images directory not found")
            /\ UNCHANGED ap_images
       ELSE \E order \in Orders(FloorDirs(input.dir)) :
               /\ ap_images' = collect_images(input.dir, order, floor_name_to_id)
               /\ pc' = IF ap_images' = <<>> THEN "save_aps" ELSE "merge"
               /\ failure' = failure
    /\ UNCHANGED <<input, tempDir, disk, saved, assets, output, accessPoints, notes,
                   images_data, floor_name_to_id, ap_index, note_index, gi, fi,
                   inserted_count, skipped_count, summary, nextId, clock, pIn, pOut>>

\* lines 325-335: collect_images, and the early return when it finds nothing
ScanImages ==
    /\ pc = "scan"
    /\ IF ~input.rootExists
       THEN /\ Abort("Images directory not found")
            /\ UNCHANGED ap_images
       ELSE \E order \in Orders(FloorDirs(input.dir)) :
               /\ ap_images' = collect_images(input.dir, order, floor_name_to_id)
               /\ pc' = IF ap_images' = <<>> THEN "done" ELSE "merge"
               /\ failure' = failure
    /\ UNCHANGED <<input, tempDir, disk, saved, assets, output, accessPoints, notes,
                   images_data, floor_name_to_id, ap_index, note_index, gi, fi,
                   inserted_count, skipped_count, summary, nextId, clock, pIn, pOut>>

\* the position of main() after the group at gi is finished
AfterGroup == IF gi + 1 > Len(ap_images) THEN "save_aps" ELSE "merge"

\* lines 337-342: a group whose key the AP index does not hold
SkipGroup ==
    /\ pc = "merge"
    /\ ap_images[gi].key \notin DOMAIN ap_index
    /\ skipped_count' = skipped_count + Len(ap_images[gi].files)
    /\ gi' = gi + 1
    /\ fi' = 1
    /\ pc' = AfterGroup
    /\ UNCHANGED <<input, failure, tempDir, disk, saved, assets, output, accessPoints,
                   notes, images_data, floor_name_to_id, ap_index, note_index,
                   ap_images, inserted_count, summary, nextId, clock, pIn, pOut>>

\* lines 344-363: one image of a matched group; the byte copy may raise
InsertImage ==
    /\ pc = "merge"
    /\ ap_images[gi].key \in DOMAIN ap_index
    /\ \E copied \in BOOLEAN, created \in BOOLEAN :
          LET now == clock
              img_path == ap_images[gi].files[fi]
              new_id == nextId
              img_id == nextId + 1
              made == create_new_note_for_ap(ap_index[ap_images[gi].key], accessPoints,
                                             notes, note_index, new_id, now)
              at == Len(made.notes.notes)
          IN  /\ copied => created
              /\ nextId' = nextId + 2
              /\ clock' = clock + 1
              /\ accessPoints' = made.accessPoints
              /\ note_index' = made.note_index
              /\ notes' = [made.notes EXCEPT !.notes[at] = Put(@, "imageIds", <<img_id>>)]
              /\ assets' = IF created THEN assets \cup {img_id} ELSE assets
              /\ IF copied
                 THEN /\ images_data' = add_image_metadata(images_data, img_id, img_path.name)
                      /\ inserted_count' = inserted_count + 1
                      /\ failure' = failure
                      /\ IF fi < Len(ap_images[gi].files)
                         THEN fi' = fi + 1 /\ gi' = gi /\ pc' = "merge"
                         ELSE fi' = 1 /\ gi' = gi + 1 /\ pc' = AfterGroup
                 ELSE /\ Abort("image copy failed")
                      /\ UNCHANGED <<images_data, inserted_count, gi, fi>>
    /\ UNCHANGED <<input, tempDir, disk, saved, output, floor_name_to_id, ap_index,
                   ap_images, skipped_count, summary, pIn, pOut>>

\* save_json(path, data): the document is rewritten, or the write raises midway
SaveStep(at, file, field, doc, next) ==
    /\ pc = at
    /\ saved' = saved \cup {file}
    /\ \E written \in BOOLEAN :
          IF written
          THEN /\ disk' = [disk EXCEPT ![field] = doc,
                                       !.present = @ \cup {file},
                                       !.damaged = @ \ {file}]
               /\ pc' = next
               /\ failure' = failure
          ELSE /\ disk' = [disk EXCEPT !.present = @ \cup {file},
                                       !.damaged = @ \cup {file}]
               /\ Abort("save failed")
    /\ UNCHANGED <<input, tempDir, assets, output, accessPoints, notes, images_data,
                   floor_name_to_id, ap_index, note_index, ap_images, gi, fi,
                   inserted_count, skipped_count, summary, nextId, clock, pIn, pOut>>

\* line 366
SaveAccessPoints ==
    SaveStep("save_aps", "accessPoints.json", "accessPoints", accessPoints, "save_notes")

\* a slip the code could have made: notes.json is not written back
SaveNotes_skipped ==
    /\ pc = "save_notes"
    /\ pc' = "save_images"
    /\ UNCHANGED <<input, failure, tempDir, disk, saved, assets, output, accessPoints,
                   notes, images_data, floor_name_to_id, ap_index, note_index, ap_images,
                   gi, fi, inserted_count, skipped_count, summary, nextId, clock, pIn, pOut>>

\* line 367
SaveNotes == SaveStep("save_notes", "notes.json", "notes", notes, "save_images")

\* line 368
SaveImages ==
    SaveStep("save_images", "images.json", "images",
             [kind |-> "object", items |-> <<>>, data |-> images_data], "repack")

\* lines 371-372: repack_project writes every file of extract_dir, or raises midway
RepackProject ==
    /\ pc = "repack"
    /\ \E packed \in BOOLEAN :
          IF packed
          THEN /\ output' = [status |-> "complete", docs |-> disk, assets |-> assets]
               /\ pc' = "cleanup"
               /\ failure' = failure
          ELSE /\ output' = [status |-> "partial", docs |-> EmptyDisk, assets |-> {}]
               /\ Abort("repack failed")
    /\ UNCHANGED <<input, tempDir, disk, saved, assets, accessPoints, notes, images_data,
                   floor_name_to_id, ap_index, note_index, ap_images, gi, fi,
                   inserted_count, skipped_count, summary, nextId, clock, pIn, pOut>>

\* lines 374-378: rmtree(ignore_errors=True) unless --keep-temp, then the summary
CleanUp ==
    /\ pc = "cleanup"
    /\ \E removed \in BOOLEAN :
          /\ removed => ~input.keep_temp
          /\ IF removed
             THEN tempDir' = "removed" /\ disk' = EmptyDisk /\ assets' = {}
             ELSE UNCHANGED <<tempDir, disk, assets>>
    /\ summary' = TRUE
    /\ pc' = "done"
    /\ UNCHANGED <<input, failure, saved, output, accessPoints, notes, images_data,
                   floor_name_to_id, ap_index, note_index, ap_images, gi, fi,
                   inserted_count, skipped_count, nextId, clock, pIn, pOut>>

----------------------------------------------------------------------------
(* The parser harness: parse_ap_name_from_filename on name.ext and name-<n>.ext *)

ParseInit ==
    /\ pIn \in [name : ParseNames, digits : ParseDigits, ext : ParseExts]
    /\ pOut = [plainDone |-> FALSE, plain |-> <<>>, burstDone |-> FALSE, burst |-> <<>>]
    /\ input \in {in \in StartupInputs : in.srcExists /\ ~in.leftover /\ in.keep_temp
                                           /\ in.rootExists /\ in.present = DocNames}
    /\ tempDir = "none"
    /\ disk = EmptyDisk
    /\ assets = {}
    /\ NotStarted

ParsePlain ==
    /\ ~pOut.plainDone
    /\ pOut' = [pOut EXCEPT !.plainDone = TRUE,
                            !.plain = parse_ap_name_from_filename(pIn.name \o pIn.ext)]
    /\ UNCHANGED <<pIn, runVars>>

ParseBurst ==
    /\ ~pOut.burstDone
    /\ pOut' = [pOut EXCEPT !.burstDone = TRUE,
                            !.burst = parse_ap_name_from_filename(
                                          pIn.name \o <<"-">> \o pIn.digits \o pIn.ext)]
    /\ UNCHANGED <<pIn, runVars>>

ParseNext == ParsePlain \/ ParseBurst

ParseSpec == ParseInit /\ [][ParseNext]_vars

----------------------------------------------------------------------------

Next ==
    \/ ExtractProject
    \/ LoadDocuments
    \/ ScanImages
    \/ SkipGroup
    \/ InsertImage
    \/ SaveAccessPoints
    \/ SaveNotes
    \/ SaveImages
    \/ RepackProject
    \/ CleanUp

Spec == Init /\ [][Next]_vars

----------------------------------------------------------------------------
(* Filename parsing *)

\* name ends in a literal "-<digits>"
EndsInBurstSuffix(name) ==
    \E i \in 1..(Len(name) - 1) :
        name[i] = "-" /\ \A j \in (i+1)..Len(name) : name[j] \in Digits

\* names the parser recovers: some character other than a dot (so that splitext
\* finds the extension), no line break, and no "-<digits>" ending of their own
PlainName(name) ==
    /\ \E i \in 1..Len(name) : name[i] # "."
    /\ \A i \in 1..Len(name) : name[i] # "\n"
    /\ ~EndsInBurstSuffix(name)

\* C7 as stated: for every AP name, name.ext and name-<n>.ext both parse to name
C7_EveryNameParsesToItself ==
    /\ (pOut.plainDone /\ pIn.name # <<>>) => pOut.plain = pIn.name
    /\ (pOut.burstDone /\ pIn.name # <<>>) => pOut.burst = pIn.name

\* C7 amended: for every AP name that does not itself end in "-<digits>" (and has a
\* character other than a dot and no line break), name.ext and name-<n>.ext both
\* parse to name, so the photos of a burst share one AP name
C7_PlainNameParsesToItself ==
    PlainName(pIn.name) =>
        /\ pOut.plainDone => pOut.plain = pIn.name
        /\ pOut.burstDone => pOut.burst = pIn.name
        /\ (pOut.plainDone /\ pOut.burstDone) => pOut.plain = pOut.burst

C7_Witness ==
    /\ pOut.plainDone /\ pOut.burstDone
    /\ PlainName(pIn.name)
    /\ Len(pIn.name) >= 2
    /\ \E i \in 1..Len(pIn.name) : pIn.name[i] = "-"
    /\ pOut.burst = pIn.name

----------------------------------------------------------------------------
(* The merge phase *)

Range(seq) == {seq[i] : i \in 1..Len(seq)}

NoteIdsOf(ap) == IF "noteIds" \in DOMAIN ap THEN ap.noteIds ELSE <<>>

\* the documents have been loaded into memory
Loaded == pc \notin {"start", "load"} /\ failure \notin
              {"ESX file not found", "accessPoints.json not found",
               "floorPlans.json not found", "notes.json not found"}

\* the loop over ap_images has run to its end
MergeDone == pc \in {"save_aps", "save_notes", "save_images", "repack", "cleanup"}

OldNotes == NoteList(input.notesDoc)
OldCatalog == CatalogOf(input.imagesFile)
OldImageIds == UNION {Range(OldNotes[i].imageIds) : i \in 1..Len(OldNotes)}
                  \cup {OldCatalog[i].id : i \in 1..Len(OldCatalog)}

\* positions in the note list of the notes made by this run
NewNotePositions == (Len(OldNotes) + 1)..Len(NoteList(notes))

\* the groups whose processing is complete, and those among them the AP index matched
GroupsDone == IF MergeDone THEN 1..Len(ap_images)
              ELSE IF pc = "merge" THEN 1..(gi - 1) ELSE {}
MatchedDone == {g \in GroupsDone : ap_images[g].key \in DOMAIN ap_index}

\* the note ids the run appended to the AP at position pos
AppendedNoteIds(pos) ==
    LET old == NoteIdsOf(input.apDoc.accessPoints[pos])
        now == NoteIdsOf(accessPoints.accessPoints[pos])
    IN  SubSeq(now, Len(old) + 1, Len(now))

\* C1: for every matched AP with N images grouped to it, the run appends exactly N
\* notes, each holding exactly one distinct fresh image id, and the AP's noteIds
\* grows by exactly N whatever it held before
C1_OneNotePerImage ==
    MergeDone =>
        /\ \A g \in MatchedDone :
              LET pos == ap_index[ap_images[g].key]
                  N == Len(ap_images[g].files)
                  new == AppendedNoteIds(pos)
                  mine == {j \in NewNotePositions : notes.notes[j].id \in Range(new)}
              IN  /\ Len(NoteIdsOf(accessPoints.accessPoints[pos]))
                        = Len(NoteIdsOf(input.apDoc.accessPoints[pos])) + N
                  /\ Cardinality(Range(new)) = N
                  /\ Cardinality(mine) = N
                  /\ \A j \in mine : Len(notes.notes[j].imageIds) = 1
        /\ \A j \in NewNotePositions :
              \E g \in MatchedDone :
                  notes.notes[j].id \in Range(AppendedNoteIds(ap_index[ap_images[g].key]))
        /\ \A j, k \in NewNotePositions :
              /\ notes.notes[j].imageIds[1] \notin OldImageIds
              /\ j # k => notes.notes[j].imageIds[1] # notes.notes[k].imageIds[1]

C1_Witness ==
    /\ pc = "save_aps"
    /\ \E g \in MatchedDone :
          /\ Len(ap_images[g].files) >= 2
          /\ Len(NoteIdsOf(input.apDoc.accessPoints[ap_index[ap_images[g].key]])) >= 2
    /\ \E g \in MatchedDone :
          "noteIds" \notin DOMAIN input.apDoc.accessPoints[ap_index[ap_images[g].key]]

IsPrefix(old, new) == Len(old) <= Len(new) /\ SubSeq(new, 1, Len(old)) = old

\* the notes and noteIds of the input are a prefix of those of documents aps, ns
Preserved(aps, ns) ==
    /\ IsPrefix(OldNotes, NoteList(ns))
    /\ Len(aps.accessPoints) = Len(input.apDoc.accessPoints)
    /\ \A pos \in 1..Len(aps.accessPoints) :
          IsPrefix(NoteIdsOf(input.apDoc.accessPoints[pos]),
                   NoteIdsOf(aps.accessPoints[pos]))

\* C2: every note of the input stays at its position with all fields unchanged, and
\* every AP's noteIds keeps its old ids, in order, as a prefix (in memory, on disk
\* once saved, and in the packed archive)
C2_ExistingNotesUntouched ==
    /\ Loaded => Preserved(accessPoints, notes)
    /\ (tempDir = "exists" /\ disk.damaged = {}) => Preserved(disk.accessPoints, disk.notes)
    /\ output.status = "complete" => Preserved(output.docs.accessPoints, output.docs.notes)

C2_Witness ==
    /\ output.status = "complete"
    /\ Len(OldNotes) >= 2
    /\ inserted_count >= 2
    /\ \E g \in MatchedDone :
          Len(NoteIdsOf(input.apDoc.accessPoints[ap_index[ap_images[g].key]])) >= 2
    /\ Len(NoteList(output.docs.notes)) > Len(OldNotes)

\* every image id of a note of the input has a catalog entry (and so an asset file)
InputIntegrity ==
    \A i \in 1..Len(OldNotes) :
        \A id \in Range(OldNotes[i].imageIds) :
            \E e \in 1..Len(OldCatalog) : OldCatalog[e].id = id

\* C3: at the end of the merge phase the catalog has the old entries plus one per
\* inserted image; given an input that had them, every image id of every note has
\* a catalog entry and an asset file; the ids minted are distinct and new
C3_CatalogIntegrity ==
    /\ MergeDone =>
          /\ Len(images_data.images) = Len(OldCatalog) + inserted_count
          /\ InputIntegrity =>
                \A j \in 1..Len(NoteList(notes)) :
                    \A id \in Range(notes.notes[j].imageIds) :
                        /\ \E e \in 1..Len(images_data.images) : images_data.images[e].id = id
                        /\ id \in assets
          /\ \A e, f \in (Len(OldCatalog) + 1)..Len(images_data.images) :
                /\ images_data.images[e].id \notin OldImageIds
                /\ e # f => images_data.images[e].id # images_data.images[f].id
    /\ pc = "repack" =>
          Len(disk.images.data.images) = Len(OldCatalog) + inserted_count

C3_Witness ==
    /\ pc = "repack"
    /\ inserted_count >= 2
    /\ Len(OldCatalog) >= 1
    /\ InputIntegrity
    /\ OldImageIds # {}

\* C6 as stated: once the group of a matched AP is processed, every id of the AP's
\* noteIds resolves in the note index (a dangling id having been replaced)
C6_AllNoteIdsResolve ==
    \A g \in MatchedDone :
        \A id \in Range(NoteIdsOf(accessPoints.accessPoints[ap_index[ap_images[g].key]])) :
            id \in DOMAIN note_index

\* C6 amended: once the group of a matched AP is processed, every note id the run
\* appended to that AP resolves in the note index to the note of that id, and every
\* old id that resolved before still does; an id that was dangling before the run
\* is left in place, dangling
C6_AppendedNoteIdsResolve ==
    \A g \in MatchedDone :
        LET pos == ap_index[ap_images[g].key]
            old == NoteIdsOf(input.apDoc.accessPoints[pos])
            oldIndex == build_note_index(input.notesDoc)
        IN  /\ \A id \in Range(AppendedNoteIds(pos)) :
                  /\ id \in DOMAIN note_index
                  /\ notes.notes[note_index[id]].id = id
            /\ \A i \in 1..Len(old) :
                  /\ accessPoints.accessPoints[pos].noteIds[i] = old[i]
                  /\ old[i] \in DOMAIN note_index <=> old[i] \in DOMAIN oldIndex

C6_Witness ==
    /\ pc = "save_aps"
    /\ \E g \in MatchedDone :
          LET pos == ap_index[ap_images[g].key]
          IN  /\ 99 \in Range(NoteIdsOf(accessPoints.accessPoints[pos]))
              /\ 99 \notin DOMAIN note_index
              /\ Len(AppendedNoteIds(pos)) >= 2

----------------------------------------------------------------------------
(* Skipped images *)

AcceptedIn(d) == {f \in input.dir[d] : Accepted(f)}

\* the accepted images of the image directory, as (floor directory, file name)
AcceptedImages == UNION {{<<d, f>> : f \in AcceptedIn(d)} : d \in DOMAIN input.dir}

FloorIdOf(d) == IF d \in DOMAIN floor_name_to_id THEN floor_name_to_id[d] ELSE ""

\* accepted images under a floor directory the floor index does not match
UnmatchedFloorImages ==
    {im \in AcceptedImages : FloorIdOf(im[1]) = ""}

\* accepted images under a matched floor whose parsed name has no AP on that floor
UnmatchedAPImages ==
    {im \in AcceptedImages :
        /\ FloorIdOf(im[1]) # ""
        /\ <<FloorIdOf(im[1]), parse_ap_name_from_filename(im[2])>> \notin DOMAIN ap_index}

MatchedImages ==
    {im \in AcceptedImages :
        /\ FloorIdOf(im[1]) # ""
        /\ <<FloorIdOf(im[1]), parse_ap_name_from_filename(im[2])>> \in DOMAIN ap_index}

\* C4: images under an unmatched floor or with an unmatched AP name produce no
\* asset, catalog entry or note, and the reported skipped count is their number
C4_SkipAccounting ==
    summary =>
        /\ skipped_count = Cardinality(UnmatchedFloorImages \cup UnmatchedAPImages)
        /\ Len(NoteList(notes)) = Len(OldNotes) + Cardinality(MatchedImages)
        /\ Len(images_data.images) = Len(OldCatalog) + Cardinality(MatchedImages)
        /\ output.assets = AssetsOf(input) \cup
              {notes.notes[j].imageIds[1] : j \in NewNotePositions}

----------------------------------------------------------------------------
(* A run without images *)

NoImages == \A d \in DOMAIN input.dir : AcceptedIn(d) = {}

----------------------------------------------------------------------------
(* Persistence, packing and cleanup *)

PersistedFiles == {"accessPoints.json", "notes.json", "images.json"}

\* the documents of d are the documents in memory, fully written
HoldsDocuments(d) ==
    /\ PersistedFiles \subseteq d.present
    /\ d.damaged = {}
    /\ d.accessPoints = accessPoints
    /\ d.notes = notes
    /\ d.images = [kind |-> "object", items |-> <<>>, data |-> images_data]

\* C8: packing starts only after the three documents are written back; extract_dir
\* is removed only after packing completed and only without --keep-temp; when
\* packing fails, extract_dir still holds the fully persisted documents
C8_PersistBeforePack ==
    /\ (pc = "repack" \/ output.status # "unwritten") => saved = PersistedFiles
    /\ pc = "repack" => HoldsDocuments(disk)
    /\ output.status = "complete" => HoldsDocuments(output.docs)
    /\ failure = "repack failed" => (tempDir = "exists" /\ HoldsDocuments(disk))
    /\ tempDir = "removed" => (output.status = "complete" /\ ~input.keep_temp)

C8_Witness ==
    /\ failure = "repack failed"
    /\ inserted_count >= 2
    /\ disk.notes # input.notesDoc
    /\ disk.accessPoints # input.apDoc

FatalErrors ==
    {"ESX file not found", "Images directory not found", "accessPoints.json not found",
     "floorPlans.json not found", "notes.json not found", "image copy failed"}

\* C9: when a run aborts on a fatal error, no document of extract_dir has been
\* rewritten and no output archive has been written
C9_FatalErrorsPersistNothing ==
    failure \in FatalErrors =>
        /\ saved = {}
        /\ output = Unwritten
        /\ disk = IF tempDir = "none" THEN EmptyDisk ELSE ContentOf(input)

C9_Witness ==
    /\ failure = "image copy failed"
    /\ inserted_count >= 1
    /\ notes # disk.notes
    /\ accessPoints # disk.accessPoints
    /\ images_data.images # OldCatalog

----------------------------------------------------------------------------
(* Clone and override *)

OwnedNoteFields ==
    {"id", "text", "title", "imageIds", "created", "modified", "createdBy", "modifiedBy"}

AuditKeys == {"createdAt", "modifiedAt", "createdBy", "modifiedBy"}

OwnedEntryFields == {"id", "imageFormat", "status"}

\* note n has every field of template t, with other values in owned fields only
NoteClonedFrom(n, t) ==
    /\ DOMAIN t \subseteq DOMAIN n
    /\ \A f \in DOMAIN t \ OwnedNoteFields :
          IF f = "history"
          THEN \A k \in DOMAIN t.history \ AuditKeys :
                  k \in DOMAIN n.history /\ n.history[k] = t.history[k]
          ELSE n[f] = t[f]

EntryClonedFrom(e, t) ==
    /\ DOMAIN t \subseteq DOMAIN e
    /\ \A f \in DOMAIN t \ OwnedEntryFields : e[f] = t[f]

\* C10: every note added to a non-empty note list, and every entry added to a
\* non-empty catalog, has every field of the first record of the list and differs
\* from it in owned fields only; the first record is left as it was
C10_CloneAndOverride ==
    [][ /\ Truthy(notes, "notes") =>
             /\ \A j \in (Len(notes.notes) + 1)..Len(NoteList(notes')) :
                   NoteClonedFrom(notes'.notes[j], notes.notes[1])
             /\ notes'.notes[1] = notes.notes[1]
        /\ Truthy(images_data, "images") =>
             /\ \A j \in (Len(images_data.images) + 1)..Len(images_data'.images) :
                   EntryClonedFrom(images_data'.images[j], images_data.images[1])
             /\ images_data'.images[1] = images_data.images[1] ]_vars

C10_Witness ==
    /\ pc = "save_aps"
    /\ inserted_count >= 2
    /\ OldNotes # <<>>
    /\ "history" \in DOMAIN OldNotes[1]
    /\ "revision" \in DOMAIN notes.notes[Len(notes.notes)].history
    /\ OldCatalog # <<>>
    /\ "resolutionWidth" \in DOMAIN images_data.images[Len(images_data.images)]

====
